---- MODULE Spec2Model ----
(***************************************************************************)
(* ParticleRetainedAtomic<T>: two retained pages A and B, each a record    *)
(* region with a 16-bit sequence number and a 32-bit checksum, and the     *)
(* save() protocol that makes a commit atomic across device resets.        *)
(*                                                                         *)
(* Retained memory (data, seqNum, checksum) survives a reset; the object   *)
(* itself (m_scratchpad, m_saved, the position inside a member function)   *)
(* does not.  A reset may fall between any two stores to retained memory,  *)
(* so the constructor and save() are modelled store by store.              *)
(***************************************************************************)
EXTENDS Integers, Sequences, FiniteSets, TLC

\* ------------------------------------------------------------------ bounds
RecLen == 2        \* sizeof(T) of the modelled record type, in bytes
MaxSaves == 2      \* caller save() calls explored
MaxResets == 2     \* device resets explored
MaxCalls == 2      \* consecutive isValid() calls explored on one page

\* --------------------------------------------------------------- constants
UINT16_MAX == 65535

Pages == {"A", "B"}
\* byte values a record holds in the model
ByteVals == {0, 1}
Records == [1..RecLen -> ByteVals]
NoRec == <<>>

\* Sequence numbers the retained metadata may hold at power-up: the values
\* around both ends of the 16-bit range.
SeqSeeds == {0, 1, UINT16_MAX}

\* the defaultValue argument of the constructor
defaultValue == [i \in 1..RecLen |-> IF i = 1 THEN 1 ELSE 0]

\* ------------------------------------------------- uint32_t arithmetic
\* A uint32_t is held as <<high half, low half>>, each 0..65535.
Zero32 == <<0, 0>>

Add32(x, n) ==
    LET lo == x[2] + n
    IN  <<(x[1] + (lo \div 65536)) % 65536, lo % 65536>>

Not32(x) == <<65535 - x[1], 65535 - x[2]>>

\* ------------------------------------------------------------ SavePage
RECURSIVE SumBytes(_, _, _)
SumBytes(d, i, sum) ==
    IF i > Len(d) THEN sum ELSE SumBytes(d, i + 1, Add32(sum, d[i]))

\* the checksum over the record bytes alone
calculateChecksum_noseq(d, s) == Not32(SumBytes(d, 1, Zero32))

\* the checksum that leaves the first record byte out
calculateChecksum_skipfirst(d, s) ==
    Not32(Add32(Add32(SumBytes(d, 2, Zero32), (s \div 256) % 256), s % 256))

\* the checksum that adds the sequence number as one 16-bit word
calculateChecksum_word(d, s) == Not32(Add32(SumBytes(d, 1, Zero32), s))

calculateChecksum(d, s) ==
    Not32(Add32(Add32(SumBytes(d, 1, Zero32), (s \div 256) % 256), s % 256))

\* clearChecksum() that leaves the checksum as it is
clearChecksum_keep(c) == c

clearChecksum(c) == Not32(c)

\* the successor without the guard against zero
NextSeq_mod(s) == (s + 1) % 65536

\* operator= that copies the sequence number as it is
NextSeq_same(s) == s

NextSeq(s) == IF s = UINT16_MAX THEN 1 ELSE s + 1

\* ----------------------------------------------------------------- state
VARIABLES
    data,          \* retained: record bytes of page A and of page B
    seqNum,        \* retained: seqNumA, seqNumB
    checksum,      \* retained: checksumA, checksumB
    m_scratchpad,  \* "A", "B", or "none" while no object exists
    m_saved,
    pc,            \* position of the program
    idx,           \* next byte of a record copy in progress
    inCtor,        \* the running save() was called by the constructor
    saves,         \* caller save() calls so far
    resets,        \* resets so far
    \* history
    pre,           \* retained memory as the running/last constructor found it
    pending,       \* scratchpad record when writeChecksum() ran in the last save()
    committed,     \* the saved page as the last completed save() left it
    phase,         \* "boot" | "constructed" | "edited" (caller wrote since) |
                   \* "savededits" (caller save() of edits done) | "saved"
    roundTrip,     \* record of the last completed save(), while unedited
    expect,        \* record the interrupted/abandoned work should come back as
    why,           \* where the last reset fell: "none" | "window" | "ctorwindow" |
                   \* "aftercommit" | "aftersave" | "afterctor" | "edited" |
                   \* "late"
    probe          \* the last SavePage member called on a page by itself

mem == <<data, seqNum, checksum>>
obj == <<m_scratchpad, m_saved, pc, idx, inCtor>>
hist == <<pre, pending, committed, phase, roundTrip, expect, why>>
vars == <<data, seqNum, checksum, m_scratchpad, m_saved, pc, idx, inCtor,
          saves, resets, pre, pending, committed, phase, roundTrip, expect, why,
          probe>>

Snapshot == [data |-> data, seqNum |-> seqNum, checksum |-> checksum]
NoCommit == [data |-> NoRec, seqNum |-> 0, checksum |-> Zero32]
NoSnapshot == [data |-> [p \in Pages |-> NoRec],
               seqNum |-> [p \in Pages |-> 0],
               checksum |-> [p \in Pages |-> Zero32]]

\* no SavePage member has been called on a page by itself
NoProbe == [page |-> "none", op |-> "none", n |-> 0, ret |-> FALSE, decayed |-> FALSE,
            before |-> [data |-> NoRec, seqNum |-> 0, checksum |-> Zero32]]

isValid(p) == calculateChecksum(data[p], seqNum[p]) = checksum[p]

\* SavePage validity evaluated on a memory snapshot
ValidIn(m, p) == calculateChecksum(m.data[p], m.seqNum[p]) = m.checksum[p]

\* getScratchpad() handing out the saved page
getScratchpad_saved == m_saved

\* the page getScratchpad() hands to the caller
getScratchpad == m_scratchpad

Other(p) == IF p = "A" THEN "B" ELSE "A"

\* Resolve with the wrap-around clause of its first test left out
Resolve_nowrap(va, vb, sa, sb) ==
    IF va THEN
        IF vb THEN
            IF sa > sb
            THEN [scratchpad |-> "A", saved |-> "B", init |-> FALSE]
            ELSE IF sb > sa \/ (sa = UINT16_MAX /\ sb = 1)
            THEN [scratchpad |-> "B", saved |-> "A", init |-> FALSE]
            ELSE [scratchpad |-> "A", saved |-> "B", init |-> TRUE]
        ELSE [scratchpad |-> "A", saved |-> "B", init |-> FALSE]
    ELSE IF vb
    THEN [scratchpad |-> "B", saved |-> "A", init |-> FALSE]
    ELSE [scratchpad |-> "A", saved |-> "B", init |-> TRUE]

\* Resolve with both sequence comparisons turned round
Resolve_older(va, vb, sa, sb) ==
    IF va THEN
        IF vb THEN
            IF sa < sb \/ (sb = UINT16_MAX /\ sa = 1)
            THEN [scratchpad |-> "A", saved |-> "B", init |-> FALSE]
            ELSE IF sb < sa \/ (sa = UINT16_MAX /\ sb = 1)
            THEN [scratchpad |-> "B", saved |-> "A", init |-> FALSE]
            ELSE [scratchpad |-> "A", saved |-> "B", init |-> TRUE]
        ELSE [scratchpad |-> "A", saved |-> "B", init |-> FALSE]
    ELSE IF vb
    THEN [scratchpad |-> "B", saved |-> "A", init |-> FALSE]
    ELSE [scratchpad |-> "A", saved |-> "B", init |-> TRUE]

\* Resolve that does not call init() when no page is valid
Resolve_noinit(va, vb, sa, sb) ==
    IF va THEN
        IF vb THEN
            IF sa > sb \/ (sb = UINT16_MAX /\ sa = 1)
            THEN [scratchpad |-> "A", saved |-> "B", init |-> FALSE]
            ELSE IF sb > sa \/ (sa = UINT16_MAX /\ sb = 1)
            THEN [scratchpad |-> "B", saved |-> "A", init |-> FALSE]
            ELSE [scratchpad |-> "A", saved |-> "B", init |-> TRUE]
        ELSE [scratchpad |-> "A", saved |-> "B", init |-> FALSE]
    ELSE IF vb
    THEN [scratchpad |-> "B", saved |-> "A", init |-> FALSE]
    ELSE [scratchpad |-> "A", saved |-> "B", init |-> FALSE]

\* Resolve with the roles of the single-valid branches exchanged
Resolve_invalidfirst(va, vb, sa, sb) ==
    IF va THEN
        IF vb THEN
            IF sa > sb \/ (sb = UINT16_MAX /\ sa = 1)
            THEN [scratchpad |-> "A", saved |-> "B", init |-> FALSE]
            ELSE IF sb > sa \/ (sa = UINT16_MAX /\ sb = 1)
            THEN [scratchpad |-> "B", saved |-> "A", init |-> FALSE]
            ELSE [scratchpad |-> "A", saved |-> "B", init |-> TRUE]
        ELSE [scratchpad |-> "B", saved |-> "A", init |-> FALSE]
    ELSE IF vb
    THEN [scratchpad |-> "A", saved |-> "B", init |-> FALSE]
    ELSE [scratchpad |-> "A", saved |-> "B", init |-> TRUE]

\* Resolve that keeps page A as it is when the sequence numbers tie
Resolve_tiekeepsA(va, vb, sa, sb) ==
    IF va THEN
        IF vb THEN
            IF sa > sb \/ (sb = UINT16_MAX /\ sa = 1)
            THEN [scratchpad |-> "A", saved |-> "B", init |-> FALSE]
            ELSE IF sb > sa \/ (sa = UINT16_MAX /\ sb = 1)
            THEN [scratchpad |-> "B", saved |-> "A", init |-> FALSE]
            ELSE [scratchpad |-> "A", saved |-> "B", init |-> FALSE]
        ELSE [scratchpad |-> "A", saved |-> "B", init |-> FALSE]
    ELSE IF vb
    THEN [scratchpad |-> "B", saved |-> "A", init |-> FALSE]
    ELSE [scratchpad |-> "A", saved |-> "B", init |-> TRUE]

\* The decision tree of the constructor: which page save() will checksum
\* (scratchpad), which it will overwrite (saved), and whether page A is
\* first initialised from defaultValue.
Resolve(va, vb, sa, sb) ==
    IF va THEN
        IF vb THEN
            IF sa > sb \/ (sb = UINT16_MAX /\ sa = 1)
            THEN [scratchpad |-> "A", saved |-> "B", init |-> FALSE]
            ELSE IF sb > sa \/ (sa = UINT16_MAX /\ sb = 1)
            THEN [scratchpad |-> "B", saved |-> "A", init |-> FALSE]
            ELSE [scratchpad |-> "A", saved |-> "B", init |-> TRUE]
        ELSE [scratchpad |-> "A", saved |-> "B", init |-> FALSE]
    ELSE IF vb
    THEN [scratchpad |-> "B", saved |-> "A", init |-> FALSE]
    ELSE [scratchpad |-> "A", saved |-> "B", init |-> TRUE]

\* Checksums a page may hold at power-up: the valid one for any record
\* under its sequence number, or the complement of its own valid one.
SeedChecksums(d, s) ==
    {calculateChecksum(r, s) : r \in Records}
        \cup {clearChecksum(calculateChecksum(d, s))}

Init ==
    /\ data \in [Pages -> Records]
    /\ seqNum \in [Pages -> SeqSeeds]
    /\ \E ca \in SeedChecksums(data["A"], seqNum["A"]),
          cb \in SeedChecksums(data["B"], seqNum["B"]) :
            checksum = [p \in Pages |-> IF p = "A" THEN ca ELSE cb]
    /\ m_scratchpad = "none"
    /\ m_saved = "none"
    /\ pc = "ctor"
    /\ idx = 1
    /\ inCtor = TRUE
    /\ saves = 0
    /\ resets = 0
    /\ pre = Snapshot
    /\ pending = NoRec
    /\ committed = NoCommit
    /\ phase = "boot"
    /\ roundTrip = NoRec
    /\ expect = NoRec
    /\ why = "none"
    /\ probe = NoProbe

\* ------------------------------------------------------------ constructor
Construct ==
    /\ pc = "ctor"
    /\ UNCHANGED probe
    /\ LET r == Resolve(isValid("A"), isValid("B"), seqNum["A"], seqNum["B"])
       IN  /\ m_scratchpad' = r.scratchpad
           /\ m_saved' = r.saved
           /\ pc' = IF r.init THEN "init" ELSE "writeChecksum"
    /\ pre' = Snapshot
    /\ inCtor' = TRUE
    /\ idx' = 1
    /\ UNCHANGED <<mem, saves, resets, pending, committed, phase, roundTrip,
                   expect, why>>

\* SavePage::init on page A: m_data = initData, one byte at a time
InitData ==
    /\ pc = "init"
    /\ UNCHANGED probe
    /\ data' = [data EXCEPT !["A"][idx] = defaultValue[idx]]
    /\ IF idx = RecLen
       THEN pc' = "initseq" /\ idx' = 1
       ELSE pc' = pc /\ idx' = idx + 1
    /\ UNCHANGED <<seqNum, checksum, m_scratchpad, m_saved, inCtor, saves,
                   resets, hist>>

\* SavePage::init on page A: m_seqNum = 1
InitSeq ==
    /\ pc = "initseq"
    /\ UNCHANGED probe
    /\ seqNum' = [seqNum EXCEPT !["A"] = 1]
    /\ pc' = "writeChecksum"
    /\ UNCHANGED <<data, checksum, m_scratchpad, m_saved, idx, inCtor, saves,
                   resets, hist>>

\* ----------------------------------------------------------------- save()
\* the caller calls save()
CallSave ==
    /\ pc = "idle"
    /\ UNCHANGED probe
    /\ saves < MaxSaves
    /\ saves' = saves + 1
    /\ pc' = "writeChecksum"
    /\ inCtor' = FALSE
    /\ pre' = NoSnapshot
    /\ pending' = NoRec
    /\ expect' = NoRec
    /\ why' = "none"
    /\ UNCHANGED <<mem, m_scratchpad, m_saved, idx, resets, committed, phase,
                   roundTrip>>

\* m_scratchpad->writeChecksum()
WriteChecksum ==
    /\ pc = "writeChecksum"
    /\ UNCHANGED probe
    /\ checksum' = [checksum EXCEPT ![m_scratchpad] =
                        calculateChecksum(data[m_scratchpad], seqNum[m_scratchpad])]
    /\ pending' = data[m_scratchpad]
    /\ pc' = "copy"
    /\ idx' = 1
    /\ UNCHANGED <<data, seqNum, m_scratchpad, m_saved, inCtor, saves, resets,
                   pre, committed, phase, roundTrip, expect, why>>

\* the data copy of operator= with its operands exchanged
CopyData_reversed ==
    /\ pc = "copy"
    /\ UNCHANGED probe
    /\ data' = [data EXCEPT ![m_scratchpad][idx] = data[m_saved][idx]]
    /\ IF idx = RecLen
       THEN pc' = "copyseq" /\ idx' = 1
       ELSE pc' = pc /\ idx' = idx + 1
    /\ UNCHANGED <<seqNum, checksum, m_scratchpad, m_saved, inCtor, saves,
                   resets, hist>>

\* *m_saved = *m_scratchpad : m_data = rhs.m_data, one byte at a time
CopyData ==
    /\ pc = "copy"
    /\ UNCHANGED probe
    /\ data' = [data EXCEPT ![m_saved][idx] = data[m_scratchpad][idx]]
    /\ IF idx = RecLen
       THEN pc' = "copyseq" /\ idx' = 1
       ELSE pc' = pc /\ idx' = idx + 1
    /\ UNCHANGED <<seqNum, checksum, m_scratchpad, m_saved, inCtor, saves,
                   resets, hist>>

\* *m_saved = *m_scratchpad : m_seqNum = successor of rhs.m_seqNum
CopySeq ==
    /\ pc = "copyseq"
    /\ UNCHANGED probe
    /\ seqNum' = [seqNum EXCEPT ![m_saved] = NextSeq(seqNum[m_scratchpad])]
    /\ pc' = "copychk"
    /\ UNCHANGED <<data, checksum, m_scratchpad, m_saved, idx, inCtor, saves,
                   resets, hist>>

\* *m_saved = *m_scratchpad : m_checksum = rhs.m_checksum
CopyChecksum ==
    /\ pc = "copychk"
    /\ UNCHANGED probe
    /\ checksum' = [checksum EXCEPT ![m_saved] = checksum[m_scratchpad]]
    /\ pc' = "clear"
    /\ UNCHANGED <<data, seqNum, m_scratchpad, m_saved, idx, inCtor, saves,
                   resets, hist>>

\* save() invalidating the scratchpad page instead of the copy
ClearChecksum_scratch ==
    /\ pc = "clear"
    /\ UNCHANGED probe
    /\ checksum' = [checksum EXCEPT ![m_scratchpad] =
                        clearChecksum(checksum[m_scratchpad])]
    /\ pc' = "swap"
    /\ UNCHANGED <<data, seqNum, m_scratchpad, m_saved, idx, inCtor, saves,
                   resets, hist>>

\* m_saved->clearChecksum()
ClearChecksum ==
    /\ pc = "clear"
    /\ UNCHANGED probe
    /\ checksum' = [checksum EXCEPT ![m_saved] = clearChecksum(checksum[m_saved])]
    /\ pc' = "swap"
    /\ UNCHANGED <<data, seqNum, m_scratchpad, m_saved, idx, inCtor, saves,
                   resets, hist>>

\* save() ending without exchanging the two pointers
Swap_noswap ==
    /\ pc = "swap"
    /\ UNCHANGED probe
    /\ pc' = "idle"
    /\ committed' = [data |-> data[m_scratchpad],
                     seqNum |-> seqNum[m_scratchpad],
                     checksum |-> checksum[m_scratchpad]]
    /\ phase' = CASE inCtor -> "constructed"
                   [] ~inCtor /\ phase = "edited" -> "savededits"
                   [] OTHER -> "saved"
    /\ roundTrip' = IF inCtor /\ roundTrip # NoRec THEN roundTrip ELSE pending
    /\ UNCHANGED <<mem, m_scratchpad, m_saved, idx, inCtor, saves, resets, pre,
                   pending, expect, why>>

\* the exchange written without the temporary
Swap_sameptr ==
    /\ pc = "swap"
    /\ UNCHANGED probe
    /\ m_saved' = m_scratchpad
    /\ m_scratchpad' = m_scratchpad
    /\ pc' = "idle"
    /\ committed' = [data |-> data[m_scratchpad],
                     seqNum |-> seqNum[m_scratchpad],
                     checksum |-> checksum[m_scratchpad]]
    /\ phase' = CASE inCtor -> "constructed"
                   [] ~inCtor /\ phase = "edited" -> "savededits"
                   [] OTHER -> "saved"
    /\ roundTrip' = IF inCtor /\ roundTrip # NoRec THEN roundTrip ELSE pending
    /\ UNCHANGED <<mem, idx, inCtor, saves, resets, pre, pending, expect, why>>

\* the pointer swap that ends save()
Swap ==
    /\ pc = "swap"
    /\ UNCHANGED probe
    /\ m_saved' = m_scratchpad
    /\ m_scratchpad' = m_saved
    /\ pc' = "idle"
    /\ committed' = [data |-> data[m_scratchpad],
                     seqNum |-> seqNum[m_scratchpad],
                     checksum |-> checksum[m_scratchpad]]
    /\ phase' = CASE inCtor -> "constructed"
                   [] ~inCtor /\ phase = "edited" -> "savededits"
                   [] OTHER -> "saved"
    /\ roundTrip' = IF inCtor /\ roundTrip # NoRec THEN roundTrip ELSE pending
    /\ UNCHANGED <<mem, idx, inCtor, saves, resets, pre, pending, expect, why>>

\* ------------------------------------------------------------- the caller
\* a store of byte b at offset i through the reference getScratchpad() returns
Mutate(i, b) ==
    /\ pc = "idle"
    /\ UNCHANGED probe
    /\ data' = [data EXCEPT ![getScratchpad][i] = b]
    /\ phase' = "edited"
    /\ roundTrip' = NoRec
    /\ pre' = NoSnapshot
    /\ pending' = NoRec
    /\ expect' = NoRec
    /\ why' = "none"
    /\ UNCHANGED <<seqNum, checksum, obj, saves, resets, committed>>

\* ------------------------------------------------------------------ reset
InWindow == pc \in {"copy", "copyseq", "copychk", "clear"}

Reset ==
    /\ pc # "ctor"
    /\ UNCHANGED probe
    /\ resets < MaxResets
    /\ resets' = resets + 1
    /\ pc' = "ctor"
    /\ m_scratchpad' = "none"
    /\ m_saved' = "none"
    /\ idx' = 1
    /\ inCtor' = TRUE
    /\ phase' = "boot"
    /\ pending' = NoRec
    /\ committed' = NoCommit
    /\ IF InWindow
       THEN /\ expect' = pending
            /\ why' = IF inCtor THEN "ctorwindow" ELSE "window"
       ELSE IF pc = "swap"
       THEN /\ expect' = pending
            /\ why' = "late"
       ELSE IF pc = "idle" \/ (pc = "writeChecksum" /\ ~inCtor)
       THEN /\ expect' = committed.data
            /\ why' = CASE phase = "edited" -> "edited"
                         [] phase = "savededits" -> "aftercommit"
                         [] phase = "saved" -> "aftersave"
                         [] OTHER -> "afterctor"
       ELSE IF pc = "writeChecksum" /\ inCtor /\ Snapshot = pre
       THEN UNCHANGED <<expect, why>>
       ELSE /\ expect' = NoRec
            /\ why' = "none"
    /\ pre' = IF pc = "writeChecksum" /\ inCtor /\ Snapshot = pre
              THEN pre ELSE NoSnapshot
    /\ UNCHANGED <<mem, saves, roundTrip>>

Next ==
    \/ Construct
    \/ InitData
    \/ InitSeq
    \/ CallSave
    \/ WriteChecksum
    \/ CopyData
    \/ CopySeq
    \/ CopyChecksum
    \/ ClearChecksum
    \/ Swap
    \/ \E i \in 1..RecLen, b \in ByteVals : Mutate(i, b)
    \/ Reset

Spec == Init /\ [][Next]_vars

\* ------------------------------------------------- SavePage by itself
\* The members of one SavePage called on a page in any order, outside the
\* save() protocol: the page under test holds any record, sequence number
\* and stored checksum; one byte of its record may decay, once.
PageBytes == {0, 1, 255}
DecayBytes == {0, 1, 2, 255}
PageRecords == [1..RecLen -> PageBytes]
PageSeqs == {0, 1, 256, UINT16_MAX}
PageChecksums(d, s) ==
    {calculateChecksum(d, s), clearChecksum(calculateChecksum(d, s)), Zero32}

PageSnapshot(p) ==
    [data |-> data[p], seqNum |-> seqNum[p], checksum |-> checksum[p]]

InitPage ==
    /\ \E p \in Pages, d \in PageRecords, s \in PageSeqs :
         \E c \in PageChecksums(d, s) :
            /\ data = [q \in Pages |-> IF q = p THEN d
                                        ELSE [i \in 1..RecLen |-> 0]]
            /\ seqNum = [q \in Pages |-> IF q = p THEN s ELSE 0]
            /\ checksum = [q \in Pages |-> IF q = p THEN c ELSE Zero32]
            /\ probe = [NoProbe EXCEPT !.page = p]
    /\ m_scratchpad = "none"
    /\ m_saved = "none"
    /\ pc = "page"
    /\ idx = 1
    /\ inCtor = FALSE
    /\ saves = 0
    /\ resets = 0
    /\ pre = NoSnapshot
    /\ pending = NoRec
    /\ committed = NoCommit
    /\ phase = "boot"
    /\ roundTrip = NoRec
    /\ expect = NoRec
    /\ why = "none"

Called(op, n, ret) ==
    [page |-> probe.page, op |-> op, n |-> n, ret |-> ret,
     before |-> IF op \in {"decay", "clearChecksum"}
                THEN PageSnapshot(probe.page) ELSE NoProbe.before,
     decayed |-> probe.decayed \/ op = "decay"]

\* isValid() storing the computed checksum instead of comparing with it
PageIsValid_assign ==
    /\ pc = "page"
    /\ probe.op = "isValid" => probe.n < MaxCalls
    /\ checksum' = [checksum EXCEPT ![probe.page] =
                        calculateChecksum(data[probe.page], seqNum[probe.page])]
    /\ probe' = Called("isValid",
                       IF probe.op = "isValid" THEN probe.n + 1 ELSE 1, TRUE)
    /\ UNCHANGED <<data, seqNum, obj, saves, resets, hist>>

\* SavePage::isValid
PageIsValid ==
    /\ pc = "page"
    /\ probe.op = "isValid" => probe.n < MaxCalls
    /\ probe' = Called("isValid",
                       IF probe.op = "isValid" THEN probe.n + 1 ELSE 1,
                       isValid(probe.page))
    /\ UNCHANGED <<mem, obj, saves, resets, hist>>

\* SavePage::writeChecksum
PageWriteChecksum ==
    /\ pc = "page"
    /\ checksum' = [checksum EXCEPT ![probe.page] =
                        calculateChecksum(data[probe.page], seqNum[probe.page])]
    /\ probe' = Called("writeChecksum", 0, FALSE)
    /\ UNCHANGED <<data, seqNum, obj, saves, resets, hist>>

\* SavePage::clearChecksum
PageClearChecksum ==
    /\ pc = "page"
    /\ checksum' = [checksum EXCEPT ![probe.page] =
                        clearChecksum(checksum[probe.page])]
    /\ probe' = Called("clearChecksum", 0, FALSE)
    /\ UNCHANGED <<data, seqNum, obj, saves, resets, hist>>

\* byte i of the record region changes to b behind the object's back
PageDecay(i, b) ==
    /\ pc = "page"
    /\ ~probe.decayed
    /\ b # data[probe.page][i]
    /\ data' = [data EXCEPT ![probe.page][i] = b]
    /\ probe' = Called("decay", 0, FALSE)
    /\ UNCHANGED <<seqNum, checksum, obj, saves, resets, hist>>

NextPage ==
    \/ PageIsValid
    \/ PageWriteChecksum
    \/ PageClearChecksum
    \/ \E i \in 1..RecLen, b \in DecayBytes : PageDecay(i, b)

SpecPage == InitPage /\ [][NextPage]_vars

\* ------------------------------------------------------------ properties
\* the constructor has returned and nothing has been called since
Done == pc = "idle" /\ phase = "constructed"

ValidPages == {p \in Pages : isValid(p)}

\* what the constructor found
FoundA == ValidIn(pre, "A")
FoundB == ValidIn(pre, "B")
FoundBoth == FoundA /\ FoundB

\* C1: a reset inside a save() of the caller, after writeChecksum() on the
\* scratchpad and before clearChecksum() on the copy has completed, is
\* recovered forward: the next construction exposes the record that was
\* being committed, whatever the sequence number and whichever page is the
\* scratchpad.
InterruptedCommitRecovered ==
    (Done /\ why = "window") => data[getScratchpad] = expect

\* C2: a record saved to completion is the record every later construction
\* exposes, for as long as the caller writes nothing.
RoundTrip ==
    (Done /\ roundTrip # NoRec) => data[getScratchpad] = roundTrip

RoundTripWitness ==
    /\ Done
    /\ why = "aftercommit"
    /\ roundTrip # defaultValue
    /\ data[getScratchpad] = roundTrip

\* C3: writes to the scratch record leave the saved page's record, sequence
\* number and checksum as the last completed save() left them, and a reset
\* before the next writeChecksum() brings back the committed record.
UncommittedEditsLost ==
    /\ (pc = "idle" /\ phase = "edited") =>
            /\ data[m_saved] = committed.data
            /\ seqNum[m_saved] = committed.seqNum
            /\ checksum[m_saved] = committed.checksum
    /\ (Done /\ why = "edited") => data[getScratchpad] = expect

UncommittedEditsLostWitness ==
    /\ Done
    /\ why = "edited"
    /\ pre.data[getScratchpad] # expect
    /\ data[getScratchpad] = expect

\* C4: after every completed save(), the constructor's included, exactly one
\* page is valid: the one m_saved points to, holding the record just
\* committed; the scratchpad page is invalid.
SingleValid ==
    (pc = "idle" /\ phase \in {"constructed", "saved", "savededits"}) =>
        /\ ValidPages = {m_saved}
        /\ data[m_saved] = pending
        /\ ~isValid(m_scratchpad)

SingleValidWitness ==
    /\ pc = "idle"
    /\ phase = "savededits"
    /\ ValidPages = {m_saved}
    /\ m_saved = "B"
    /\ pending # defaultValue

\* C5: both pages valid, A at 65535 and B at 1: B is the newer page.
WrapAMax ==
    (Done /\ FoundBoth /\ pre.seqNum["A"] = UINT16_MAX /\ pre.seqNum["B"] = 1) =>
        /\ m_saved = "B"
        /\ data[getScratchpad] = pre.data["B"]

\* C6: both pages valid, B at 65535 and A at 1: A is the newer page, its
\* record is exposed and B's record is gone.
WrapBMax ==
    (Done /\ FoundBoth /\ pre.seqNum["B"] = UINT16_MAX /\ pre.seqNum["A"] = 1) =>
        /\ m_saved = "A"
        /\ data[getScratchpad] = pre.data["A"]
        /\ data["B"] = pre.data["A"]

WrapBMaxWitness ==
    /\ Done
    /\ FoundBoth
    /\ pre.seqNum["B"] = UINT16_MAX
    /\ pre.seqNum["A"] = 1
    /\ pre.data["A"] # pre.data["B"]
    /\ m_saved = "A"

\* C7: both pages valid with different sequence numbers other than the pair
\* 65535 and 1: the page with the greater number becomes the saved page, its
\* record is exposed and copied over the other page, and one page is valid.
AwayFromWrap ==
    /\ pre.seqNum["A"] # pre.seqNum["B"]
    /\ {pre.seqNum["A"], pre.seqNum["B"]} # {1, UINT16_MAX}

Greater == IF pre.seqNum["A"] > pre.seqNum["B"] THEN "A" ELSE "B"

DoubleValidGreater ==
    (Done /\ FoundBoth /\ AwayFromWrap) =>
        /\ m_saved = Greater
        /\ data[getScratchpad] = pre.data[Greater]
        /\ data[Other(Greater)] = pre.data[Greater]
        /\ ValidPages = {Greater}

DoubleValidGreaterWitness ==
    /\ Done
    /\ FoundBoth
    /\ AwayFromWrap
    /\ Greater = "B"
    /\ pre.data["A"] # pre.data["B"]
    /\ ValidPages = {"B"}

\* C8: no page valid: A is initialised from the default value with sequence
\* number 1; the default is exposed, A is saved and the only valid page, B
\* is the scratchpad.
DoubleInvalid ==
    (Done /\ ~FoundA /\ ~FoundB) =>
        /\ data[getScratchpad] = defaultValue
        /\ data["A"] = defaultValue
        /\ seqNum["A"] = 1
        /\ m_saved = "A"
        /\ m_scratchpad = "B"
        /\ ValidPages = {"A"}

DoubleInvalidWitness ==
    /\ Done
    /\ ~FoundA
    /\ ~FoundB
    /\ pre.data["A"] # defaultValue
    /\ pre.data["B"] # defaultValue
    /\ pre.seqNum["A"] # 1
    /\ data[getScratchpad] = defaultValue

\* C9: exactly one page valid: it becomes the saved page, its record and
\* sequence number untouched; the other page is the scratchpad and holds a
\* copy of its record; the default value is written nowhere.
FoundOne == IF FoundA THEN "A" ELSE "B"

SingleValidRecovery ==
    (Done /\ FoundA # FoundB) =>
        /\ m_saved = FoundOne
        /\ m_scratchpad = Other(FoundOne)
        /\ data[FoundOne] = pre.data[FoundOne]
        /\ seqNum[FoundOne] = pre.seqNum[FoundOne]
        /\ data[Other(FoundOne)] = pre.data[FoundOne]

SingleValidRecoveryWitness ==
    /\ Done
    /\ ~FoundA
    /\ FoundB
    /\ pre.data["B"] # defaultValue
    /\ pre.data["A"] # pre.data["B"]
    /\ m_saved = "B"
    /\ data["A"] = pre.data["B"]

\* C10: both pages valid with the same sequence number: page A is
\* initialised from the default value with sequence number 1, the default
\* is exposed and one page is valid, whatever the pages held.
SequenceTie ==
    (Done /\ FoundBoth /\ pre.seqNum["A"] = pre.seqNum["B"]) =>
        /\ data[getScratchpad] = defaultValue
        /\ data["A"] = defaultValue
        /\ seqNum["A"] = 1
        /\ ValidPages = {"A"}

SequenceTieWitness ==
    /\ Done
    /\ FoundBoth
    /\ pre.seqNum["A"] = pre.seqNum["B"]
    /\ pre.seqNum["A"] = UINT16_MAX
    /\ pre.data["A"] # defaultValue
    /\ pre.data["B"] # defaultValue
    /\ data[getScratchpad] = defaultValue

\* the sequence number that follows s: s + 1, and 1 after 65535
Successor(s) == IF s = 65535 THEN 1 ELSE s + 1

\* the bitwise complement of a 32-bit value
Complement(c) == <<65535 - c[1], 65535 - c[2]>>

\* a save() has returned and nothing has been called since
Completed == pc = "idle" /\ phase \in {"constructed", "saved", "savededits"}

\* the step on which a save() of the caller returns
CallerSaveReturns == pc = "swap" /\ pc' = "idle" /\ ~inCtor

\* C11: each completed commit leaves the saved page with the successor of
\* the sequence number the previous commit left on the saved page (1 after
\* 65535), and the copy never stores sequence number 0.
SequenceMonotonic ==
    [][ /\ CallerSaveReturns => seqNum'[m_saved'] = Successor(committed.seqNum)
        /\ (pc = "copyseq" /\ pc' = "copychk") => seqNum'[m_saved] # 0 ]_vars

SequenceMonotonicWitness ==
    /\ pc = "swap"
    /\ ~inCtor
    /\ committed.seqNum = UINT16_MAX
    /\ seqNum[m_scratchpad] = 1
    /\ seqNum[m_saved] = 2

\* C14: save() writes the scratchpad's checksum first, then copies record,
\* successor sequence number and checksum onto the saved page in that order,
\* then complements the saved page's checksum; the old saved page is intact
\* until the scratchpad's checksum is written and the scratchpad's record is
\* never written.
CommitStepOrder ==
    /\ (pc = "writeChecksum" /\ ~inCtor) =>
            /\ data[m_saved] = committed.data
            /\ seqNum[m_saved] = committed.seqNum
            /\ checksum[m_saved] = committed.checksum
    /\ pc \in {"copy", "copyseq", "copychk", "clear", "swap"} =>
            data[m_scratchpad] = pending
    /\ pc \in {"copy", "copyseq", "copychk", "clear"} =>
            checksum[m_scratchpad] =
                calculateChecksum(pending, seqNum[m_scratchpad])
    /\ (pc = "copy" /\ ~inCtor) =>
            /\ \A j \in 1..RecLen :
                  data[m_saved][j] = IF j < idx THEN pending[j]
                                     ELSE committed.data[j]
            /\ seqNum[m_saved] = committed.seqNum
            /\ checksum[m_saved] = committed.checksum
    /\ pc \in {"copyseq", "copychk", "clear", "swap"} => data[m_saved] = pending
    /\ (pc = "copyseq" /\ ~inCtor) =>
            /\ seqNum[m_saved] = committed.seqNum
            /\ checksum[m_saved] = committed.checksum
    /\ pc \in {"copychk", "clear", "swap"} =>
            seqNum[m_saved] = Successor(seqNum[m_scratchpad])
    /\ (pc = "copychk" /\ ~inCtor) => checksum[m_saved] = committed.checksum
    /\ pc = "clear" => checksum[m_saved] = checksum[m_scratchpad]
    /\ pc = "swap" =>
            /\ checksum[m_saved] = Complement(checksum[m_scratchpad])
            /\ checksum[m_scratchpad] =
                    calculateChecksum(pending, seqNum[m_scratchpad])

CommitStepOrderWitness ==
    /\ pc = "copy"
    /\ idx = 2
    /\ ~inCtor
    /\ pending[1] # committed.data[1]
    /\ data[m_saved][1] = pending[1]
    /\ checksum[m_saved] = committed.checksum

\* C15: from the constructor's choice of roles on, m_scratchpad and m_saved
\* are the two different pages; a save() exchanges them when it returns and
\* nothing else moves them.
RoleInvariant ==
    /\ [](pc # "ctor" => /\ m_scratchpad # m_saved
                         /\ {m_scratchpad, m_saved} = Pages)
    /\ [][(pc # "ctor" /\ pc' # "ctor") =>
            IF pc = "swap"
            THEN m_saved' = m_scratchpad /\ m_scratchpad' = m_saved
            ELSE UNCHANGED <<m_scratchpad, m_saved>>]_vars

RoleInvariantWitness ==
    /\ pc = "idle"
    /\ saves = 2
    /\ m_scratchpad = "A"
    /\ m_saved = "B"

\* C17: no page the constructor finds valid, and no saved page after a
\* completed save(), has sequence number 0.
SeqZeroNeverValid ==
    /\ Done => \A p \in Pages : ValidIn(pre, p) => pre.seqNum[p] # 0
    /\ Completed => seqNum[m_saved] # 0

\* C19: after every completed save() the scratchpad page holds the record
\* just committed and the successor of the saved page's sequence number, and
\* a save() that follows without a write commits the same record under the
\* next sequence number.
EditsContinue ==
    /\ [](Completed => /\ data[m_saved] = pending
                       /\ data[m_scratchpad] = data[m_saved]
                       /\ seqNum[m_scratchpad] = Successor(seqNum[m_saved]))
    /\ [][(CallerSaveReturns /\ phase # "edited") =>
            /\ data'[m_saved'] = committed.data
            /\ seqNum'[m_saved'] = Successor(committed.seqNum)]_vars

EditsContinueWitness ==
    /\ pc = "idle"
    /\ phase = "saved"
    /\ data[m_saved] # defaultValue
    /\ saves = 1
    /\ seqNum[m_saved] = 1
    /\ seqNum[m_scratchpad] = 2
    /\ data[m_scratchpad] = data[m_saved]

\* C20: the page operator= has written is not valid even before
\* clearChecksum() runs: a record's checksum under a sequence number never
\* equals its checksum under the successor, for every sequence number
\* 0..65535, so between the copy and the invalidation the two pages hold
\* the same checksum and only the source is valid.
SuccessorChecksumDiffers ==
    \A r \in Records : \A n \in 0..UINT16_MAX :
        calculateChecksum(r, NextSeq(n)) # calculateChecksum(r, n)

CopyInvalidBeforeClear ==
    /\ pc = "clear" => /\ isValid(m_scratchpad)
                       /\ checksum[m_saved] = checksum[m_scratchpad]
                       /\ ~isValid(m_saved)
    /\ SuccessorChecksumDiffers

CopyInvalidBeforeClearWitness ==
    /\ pc = "clear"
    /\ seqNum[m_scratchpad] = UINT16_MAX
    /\ seqNum[m_saved] = 1
    /\ isValid(m_scratchpad)
    /\ ~isValid(m_saved)

\* the page under test was valid before the last call
WasValid ==
    calculateChecksum(probe.before.data, probe.before.seqNum)
        = probe.before.checksum

\* C12: a valid page one of whose record bytes is replaced by a different
\* value, sequence number and stored checksum left alone, is not valid.
CorruptionDetected ==
    (probe.op = "decay" /\ WasValid) => ~isValid(probe.page)

CorruptionDetectedWitness ==
    /\ probe.op = "decay"
    /\ WasValid
    /\ seqNum[probe.page] = probe.before.seqNum
    /\ checksum[probe.page] = probe.before.checksum
    /\ data[probe.page][RecLen] # probe.before.data[RecLen]
    /\ ~isValid(probe.page)

\* C13: isValid() changes no record byte, sequence number or stored checksum
\* of either page and no role pointer, and a call that follows another with
\* nothing written in between returns the same result.
IsValidIdempotent ==
    [][(probe'.op = "isValid" /\ probe' # probe) =>
        /\ data' = data
        /\ seqNum' = seqNum
        /\ checksum' = checksum
        /\ m_scratchpad' = m_scratchpad
        /\ m_saved' = m_saved
        /\ probe.op = "isValid" => probe'.ret = probe.ret]_vars

IsValidIdempotentWitness ==
    /\ probe.op = "isValid"
    /\ probe.n = 2
    /\ probe.ret = FALSE
    /\ ~isValid(probe.page)

\* C16 as claimed: after clearChecksum() the page is not valid, whatever it
\* held before.
ClearAlwaysInvalidates ==
    probe.op = "clearChecksum" => ~isValid(probe.page)

\* C16, amended: after clearChecksum() the page is not valid, unless its
\* stored checksum was the complement of the checksum computed over its
\* record and sequence number; a page valid before is never valid after.
ClearInvalidates ==
    /\ (probe.op = "clearChecksum"
            /\ probe.before.checksum #
                Complement(calculateChecksum(probe.before.data,
                                             probe.before.seqNum)))
        => ~isValid(probe.page)
    /\ (probe.op = "clearChecksum" /\ WasValid) => ~isValid(probe.page)

ClearInvalidatesWitness ==
    /\ probe.op = "clearChecksum"
    /\ WasValid
    /\ checksum[probe.page] = Complement(probe.before.checksum)
    /\ ~isValid(probe.page)

\* C18: the checksum is the 32-bit complement of the sum of the record bytes
\* plus the high byte plus the low byte of the sequence number, so it is the
\* same for every reordering of the record bytes and with the two bytes of
\* the sequence number exchanged.
RECURSIVE ByteTotal(_, _)
ByteTotal(d, i) == IF i > Len(d) THEN 0 ELSE d[i] + ByteTotal(d, i + 1)

RefChecksum(d, s) ==
    LET total == ByteTotal(d, 1) + (s \div 256) + (s % 256)
    IN  Complement(<<(total \div 65536) % 65536, total % 65536>>)

Transposed(d, i, j) == [d EXCEPT ![i] = d[j], ![j] = d[i]]

BytesExchanged(s) == (s % 256) * 256 + (s \div 256)

ChecksumFunction ==
    LET d == data[probe.page]
        s == seqNum[probe.page]
    IN  /\ probe.op = "writeChecksum" => checksum[probe.page] = RefChecksum(d, s)
        /\ calculateChecksum(d, s) = RefChecksum(d, s)
        /\ \A i, j \in 1..RecLen :
              calculateChecksum(Transposed(d, i, j), s) = calculateChecksum(d, s)
        /\ calculateChecksum(d, BytesExchanged(s)) = calculateChecksum(d, s)

ChecksumFunctionWitness ==
    /\ probe.op = "writeChecksum"
    /\ seqNum[probe.page] = 256
    /\ data[probe.page][1] # data[probe.page][RecLen]
    /\ checksum[probe.page] = RefChecksum(data[probe.page], seqNum[probe.page])

TypeOK ==
    /\ data \in [Pages -> Records]
    /\ seqNum \in [Pages -> 0..UINT16_MAX]
    /\ pc \in {"ctor", "init", "initseq", "writeChecksum", "copy", "copyseq",
               "copychk", "clear", "swap", "idle"}
====
